---------------------------- MODULE Spec2Model ----------------------------
(***************************************************************************)
(* A model of the four scripts of the repository.  Each behaviour is one   *)
(* run of one script, chosen by `script` in the initial state:             *)
(*   "set"     Chapter 5 Dictionary & Sets/Problem_set/04_proble04.py      *)
(*   "pattern" Chapter 7 Loops/Practice set/07_problem7.py                 *)
(*   "search"  Chapter 9 File I&O/pratice_set/07_problem07.py              *)
(*   "galaxy"  Chapter 4 List and Tuples/pass.py                           *)
(* The program counter `pc` names the source line about to execute.        *)
(* Standard output is the text written so far, one character stream.       *)
(***************************************************************************)
EXTENDS Integers, Sequences, FiniteSets, TLC

VARIABLES
    script,     \* which script this run executes
    pc,         \* the source line about to execute, or "done" / "aborted"
    stdout,     \* text written to standard output so far
    prompt,     \* text input() has shown as its prompt
    s,          \* set script: the set, as its members in insertion order
    strHash,    \* set script: hash('20') of this process (hash seed)
    stdin,      \* pattern script: the line typed on standard input
    n,          \* pattern script: n
    i,          \* pattern script: loop variable i
    fileExists, \* search script: whether log.txt can be opened
    fileText,   \* search script: the content of log.txt
    lines,      \* search script: lines
    pos,        \* search script: how many elements of lines the for loop consumed
    lineno,     \* search script: lineno
    ned,        \* galaxy script: what the catalog service does on this run
    df,         \* galaxy script: df of main
    summary,    \* galaxy script: summary of main
    plots,      \* galaxy script: the charts drawn so far
    calls       \* galaxy script: history of main's calls and their outcomes

vars == <<script, pc, stdout, prompt, s, strHash, stdin, n, i, fileExists,
          fileText, lines, pos, lineno, ned, df, summary, plots, calls>>

setVars     == <<s>>
patternVars == <<prompt, n, i>>
searchVars  == <<lines, pos, lineno>>
galaxyVars  == <<df, summary, plots, calls>>
inputs      == <<script, strHash, stdin, fileExists, fileText, ned>>

-----------------------------------------------------------------------------
(* Text helpers.                                                           *)

\* print(text, end=end): the text then the terminator, appended to the stream.
PyPrint(out, text, end) == out \o text \o end

\* str * k for k >= 0 (Python gives "" for k <= 0).
RECURSIVE Repeat(_, _)
Repeat(str, k) == IF k <= 0 THEN "" ELSE str \o Repeat(str, k - 1)

\* The k-th character of a text.
Char(text, k) == SubSeq(text, k, k)

\* needle in hay (Python's substring test on str).
Contains(needle, hay) ==
    \E k \in 1..(Len(hay) - Len(needle) + 1) :
        SubSeq(hay, k, k + Len(needle) - 1) = needle

\* The lines of a text stream: the pieces ended by "\n", without the "\n",
\* and a last unterminated piece if there is one.
RECURSIVE SplitFrom(_, _, _)
SplitFrom(text, from, k) ==
    IF k > Len(text)
    THEN IF from > Len(text) THEN <<>> ELSE <<SubSeq(text, from, Len(text))>>
    ELSE IF Char(text, k) = "\n"
         THEN <<SubSeq(text, from, k - 1)>> \o SplitFrom(text, k + 1, k + 1)
         ELSE SplitFrom(text, from, k + 1)

OutputLines(text) == SplitFrom(text, 1, 1)

-----------------------------------------------------------------------------
(* Set script: 04_proble04.py                                              *)

\* A Python object: its type, its numeric value, its text.
IntObj(v)   == <<"int", v, "">>
FloatObj(v) == <<"float", v, "">>   \* the float v.0
StrObj(x)   == <<"str", 0, x>>

TypeOf(x) == x[1]
NumOf(x)  == x[2]
TextOf(x) == x[3]

Twenty == 20

IsNumber(x) == TypeOf(x) \in {"int", "float"}

\* a == b on Python objects: numbers compare by value across int and float,
\* a str equals only a str with the same text.
PyEqStrict(a, b) == a = b
PyEq(a, b) ==
    IF IsNumber(a) /\ IsNumber(b) THEN NumOf(a) = NumOf(b)
    ELSE TypeOf(a) = TypeOf(b) /\ TextOf(a) = TextOf(b)

\* hash(x): numbers that compare equal hash equal; a str hashes by the seed.
PyHash(x) == IF IsNumber(x) THEN NumOf(x) ELSE strHash

\* set.add(x): x is stored unless a member with the same hash equals it.
SetAdd(set, x) ==
    IF \E k \in 1..Len(set) : PyHash(set[k]) = PyHash(x) /\ PyEq(set[k], x)
    THEN set
    ELSE Append(set, x)

\* repr of a member and of a set listed in the order `order`.
Repr(x) ==
    CASE TypeOf(x) = "int"   -> ToString(NumOf(x))
      [] TypeOf(x) = "float" -> ToString(NumOf(x)) \o ".0"
      [] TypeOf(x) = "str"   -> "'" \o TextOf(x) \o "'"

RECURSIVE JoinRepr(_, _, _)
JoinRepr(set, order, k) ==
    IF k > Len(order) THEN ""
    ELSE (IF k > 1 THEN ", " ELSE "") \o Repr(set[order[k]])
         \o JoinRepr(set, order, k + 1)

SetRepr(set, order) ==
    IF Len(set) = 0 THEN "set()" ELSE "{" \o JoinRepr(set, order, 1) \o "}"

Orders(k) == {o \in [1..k -> 1..k] : \A a, b \in 1..k : a # b => o[a] # o[b]}

SetStep(from, to, x) ==
    /\ script = "set" /\ pc = from
    /\ s' = SetAdd(s, x)
    /\ pc' = to
    /\ UNCHANGED <<stdout, inputs, patternVars, searchVars, galaxyVars>>

\* s = set()
SetNew ==
    /\ script = "set" /\ pc = "set:3"
    /\ s' = <<>>
    /\ pc' = "set:4"
    /\ UNCHANGED <<stdout, inputs, patternVars, searchVars, galaxyVars>>

SetAdd20      == SetStep("set:4", "set:5", IntObj(Twenty))
SetAdd20Float == SetStep("set:5", "set:6", FloatObj(Twenty))
SetAdd20Str   == SetStep("set:6", "set:8", StrObj(ToString(Twenty)))

\* print(s): iteration order of a set follows the hash slots, so any order.
SetPrint ==
    /\ script = "set" /\ pc = "set:8"
    /\ \E o \in Orders(Len(s)) : stdout' = PyPrint(stdout, SetRepr(s, o), "\n")
    /\ pc' = "set:9"
    /\ UNCHANGED <<inputs, setVars, patternVars, searchVars, galaxyVars>>

SetPrintLen ==
    /\ script = "set" /\ pc = "set:9"
    /\ stdout' = PyPrint(stdout, ToString(Len(s)), "\n")
    /\ pc' = "done"
    /\ UNCHANGED <<inputs, setVars, patternVars, searchVars, galaxyVars>>

-----------------------------------------------------------------------------
(* Pattern script: 07_problem7.py                                          *)

MaxN == 4

Digits == <<"0", "1", "2", "3", "4", "5", "6", "7", "8", "9">>
IsDigit(c) == \E d \in 1..10 : Digits[d] = c
DigitValue(c) == (CHOOSE d \in 1..10 : Digits[d] = c) - 1

RECURSIVE DigitsValue(_, _)
DigitsValue(text, k) ==
    IF k = 0 THEN 0 ELSE 10 * DigitsValue(text, k - 1) + DigitValue(Char(text, k))

AllDigits(text) ==
    Len(text) > 0 /\ \A k \in 1..Len(text) : IsDigit(Char(text, k))

\* int(text) for a text without surrounding blanks: an optional sign and
\* decimal digits; anything else raises ValueError.
Unsigned(text) ==
    IF Len(text) > 0 /\ Char(text, 1) \in {"-", "+"}
    THEN SubSeq(text, 2, Len(text)) ELSE text
IntParses(text) == AllDigits(Unsigned(text))
IntOf(text) ==
    LET m == DigitsValue(Unsigned(text), Len(Unsigned(text)))
    IN  IF Char(text, 1) = "-" THEN 0 - m ELSE m

StdinChoices == {ToString(k) : k \in (0 - 1)..MaxN} \cup {"", "abc", "+2"}

\* n = int(input("Enter the value: "))
PatternInput ==
    /\ script = "pattern" /\ pc = "pattern:6"
    /\ prompt' = "Enter the value: "
    /\ IF IntParses(stdin)
       THEN n' = IntOf(stdin) /\ pc' = "pattern:8"
       ELSE n' = n /\ pc' = "aborted"
    /\ UNCHANGED <<i, stdout, inputs, setVars, searchVars, galaxyVars>>

\* for i in range(1, n+1): the loop head binds i to the next value of the
\* range, or leaves the loop when the range is exhausted (i = 0: not yet bound).
PatternFor ==
    /\ script = "pattern" /\ pc = "pattern:8"
    /\ IF i + 1 <= n
       THEN i' = i + 1 /\ pc' = "pattern:9"
       ELSE i' = i /\ pc' = "done"
    /\ UNCHANGED <<stdout, prompt, n, inputs, setVars, searchVars, galaxyVars>>

PatternSpaces ==
    /\ script = "pattern" /\ pc = "pattern:9"
    /\ stdout' = PyPrint(stdout, Repeat(" ", n - i), "")
    /\ pc' = "pattern:10"
    /\ UNCHANGED <<inputs, setVars, patternVars, searchVars, galaxyVars>>

StarCountEven(k) == 2 * k
StarCount(k) == 2 * k - 1

PatternStars ==
    /\ script = "pattern" /\ pc = "pattern:10"
    /\ stdout' = PyPrint(stdout, Repeat("*", StarCount(i)), "")
    /\ pc' = "pattern:11"
    /\ UNCHANGED <<inputs, setVars, patternVars, searchVars, galaxyVars>>

PatternNewline ==
    /\ script = "pattern" /\ pc = "pattern:11"
    /\ stdout' = PyPrint(stdout, "", "\n")
    /\ pc' = "pattern:8"
    /\ UNCHANGED <<inputs, setVars, patternVars, searchVars, galaxyVars>>

-----------------------------------------------------------------------------
(* File-search script: 07_problem07.py                                     *)

MaxLines == 3

LinePool == {"", "hello", "python", "I love python", "Python", "PYTHON"}

\* The text of a file holding the given lines, each ended by "\n" except,
\* when `ended` is false, the last one.
RECURSIVE JoinLines(_, _, _)
JoinLines(ls, k, ended) ==
    IF k > Len(ls) THEN ""
    ELSE ls[k] \o (IF k < Len(ls) \/ ended THEN "\n" ELSE "")
         \o JoinLines(ls, k + 1, ended)

FileChoices ==
    {JoinLines(ls, 1, e) :
        ls \in UNION {[1..k -> LinePool] : k \in 0..MaxLines}, e \in BOOLEAN}

\* f.readlines(): the lines of the text, each keeping its "\n".
RECURSIVE ReadLinesFrom(_, _, _)
ReadLinesFrom(text, from, k) ==
    IF k > Len(text)
    THEN IF from > Len(text) THEN <<>> ELSE <<SubSeq(text, from, Len(text))>>
    ELSE IF Char(text, k) = "\n"
         THEN <<SubSeq(text, from, k)>> \o ReadLinesFrom(text, k + 1, k + 1)
         ELSE ReadLinesFrom(text, from, k + 1)

ReadLines(text) == ReadLinesFrom(text, 1, 1)

\* with open("log.txt") as f: lines = f.readlines()
SearchOpen ==
    /\ script = "search" /\ pc = "search:4"
    /\ IF fileExists
       THEN lines' = ReadLines(fileText) /\ pc' = "search:7"
       ELSE lines' = lines /\ pc' = "aborted"
    /\ UNCHANGED <<stdout, pos, lineno, inputs, setVars, patternVars, galaxyVars>>

\* lineno = 1
SearchInit ==
    /\ script = "search" /\ pc = "search:7"
    /\ lineno' = 1
    /\ pc' = "search:8"
    /\ UNCHANGED <<stdout, lines, pos, inputs, setVars, patternVars, galaxyVars>>

\* for line in lines: take the next line, or go to the else clause
SearchFor ==
    /\ script = "search" /\ pc = "search:8"
    /\ IF pos < Len(lines)
       THEN pos' = pos + 1 /\ pc' = "search:9"
       ELSE pos' = pos /\ pc' = "search:14"
    /\ UNCHANGED <<stdout, lines, lineno, inputs, setVars, patternVars, galaxyVars>>

Needle == "python"

\* if "python" in line
LineMatchesAnyCase(line) ==
    \E w \in {"python", "Python", "PYTHON"} : Contains(w, line)
LineMatches(line) == Contains(Needle, line)

SearchTest ==
    /\ script = "search" /\ pc = "search:9"
    /\ pc' = IF LineMatches(lines[pos]) THEN "search:10" ELSE "search:12"
    /\ UNCHANGED <<stdout, inputs, setVars, patternVars, searchVars, galaxyVars>>

FoundMessageZeroBased(k) == "Yes, Python is present. Line no: " \o ToString(k - 1)
FoundMessage(k) == "Yes, Python is present. Line no: " \o ToString(k)
NotFoundMessage == "No, Python is not present."

\* print(f"Yes, ... {lineno}"); break
SearchFound ==
    /\ script = "search" /\ pc = "search:10"
    /\ stdout' = PyPrint(stdout, FoundMessage(lineno), "\n")
    /\ pc' = "done"
    /\ UNCHANGED <<inputs, setVars, patternVars, searchVars, galaxyVars>>

\* lineno += 1
SearchIncr ==
    /\ script = "search" /\ pc = "search:12"
    /\ lineno' = lineno + 1
    /\ pc' = "search:8"
    /\ UNCHANGED <<stdout, lines, pos, inputs, setVars, patternVars, galaxyVars>>

\* else: print("No, Python is not present.")
SearchNotFound ==
    /\ script = "search" /\ pc = "search:14"
    /\ stdout' = PyPrint(stdout, NotFoundMessage, "\n")
    /\ pc' = "done"
    /\ UNCHANGED <<inputs, setVars, patternVars, searchVars, galaxyVars>>

-----------------------------------------------------------------------------
(* Galaxy script: pass.py.  A DataFrame is its column names, its index     *)
(* labels and its rows; a row maps each column name to a cell; a cell is   *)
(* a number or missing (NaN).  Angles are held in tenths of a degree and   *)
(* unit-sphere coordinates in units of 1/10000.                            *)

Cell(v) == [na |-> FALSE, v |-> v]
NA      == [na |-> TRUE,  v |-> 0]

Frame(columns, index, rows) == [columns |-> columns, index |-> index, rows |-> rows]
NoFrame == Frame(<<>>, <<>>, <<>>)

\* The default index of a frame of k rows: 0 .. k-1.
RangeIndex(k) == [j \in 1..k |-> j - 1]

Range(seq) == {seq[k] : k \in 1..Len(seq)}

\* Boolean indexing: the positions where the mask is true, in row order.
RECURSIVE MaskPositions(_, _)
MaskPositions(mask, k) ==
    IF k > Len(mask) THEN <<>>
    ELSE (IF mask[k] THEN <<k>> ELSE <<>>) \o MaskPositions(mask, k + 1)

\* frame[mask]: the rows where the mask is true, with their index labels.
Where(frame, mask) ==
    LET kept == MaskPositions(mask, 1)
    IN  Frame(frame.columns,
              [j \in 1..Len(kept) |-> frame.index[kept[j]]],
              [j \in 1..Len(kept) |-> frame.rows[kept[j]]])

NedColumns == <<"Object Name", "RA(deg)", "DEC(deg)", "Redshift">>
AltColumns == <<"Object Name", "RA", "DEC", "Redshift">>

Row(name, ra, dec, z) ==
    ("Object Name" :> name) @@ ("RA(deg)" :> ra) @@ ("DEC(deg)" :> dec)
        @@ ("Redshift" :> z)
AltRow(name, ra, dec, z) ==
    ("Object Name" :> name) @@ ("RA" :> ra) @@ ("DEC" :> dec) @@ ("Redshift" :> z)

\* ---- fetch_galaxy_data ----

FetchBanner == "Fetching galaxy data from NED..."
FetchedMessage(k) == "Fetched " \o ToString(k) \o " galaxy records."

\* result_table.to_pandas(): the service's table with the default index.
ToPandas(table) == Frame(table.columns, RangeIndex(Len(table.rows)), table.rows)

\* ---- preprocess_data ----

ColumnsNeeded == <<"RA(deg)", "DEC(deg)", "Redshift">>

\* df[columns_needed] raises KeyError unless every named column exists.
HasColumns(frame, cols) == Range(cols) \subseteq Range(frame.columns)

\* df[columns_needed]
Project(frame, cols) ==
    Frame(cols, frame.index,
          [k \in 1..Len(frame.rows) |-> [c \in Range(cols) |-> frame.rows[k][c]]])

\* df.dropna(subset=cols): the rows with no missing cell in cols; the kept
\* rows keep their index labels.
RowComplete(row, cols) == \A c \in Range(cols) : ~row[c].na
DropNaAny(frame, cols) ==
    Where(frame, [k \in 1..Len(frame.rows) |-> ~frame.rows[k][cols[1]].na])
DropNa(frame, cols) ==
    Where(frame, [k \in 1..Len(frame.rows) |-> RowComplete(frame.rows[k], cols)])

\* df.reset_index(drop=True, inplace=True)
ResetIndex(frame) == Frame(frame.columns, RangeIndex(Len(frame.rows)), frame.rows)

PreprocessBanner == "Preprocessing data..."
PreprocessedMessage(k) == "Data after preprocessing: " \o ToString(k) \o " records."

preprocess_data(frame) ==
    ResetIndex(DropNa(Project(frame, ColumnsNeeded), ColumnsNeeded))

\* ---- perform_clustering ----

\* SkyCoord(ra, dec).cartesian: (cos dec cos ra, cos dec sin ra, sin dec),
\* tabulated for the sky positions the model's catalogs hold.
Cartesian(ra, dec) ==
    CASE ra = 2    /\ dec = 0   -> <<10000, 35, 0>>
      [] ra = 3598 /\ dec = 0   -> <<10000, -35, 0>>
      [] ra = 11   /\ dec = 0   -> <<9998, 192, 0>>
      [] ra = 1800 /\ dec = 100 -> <<-9848, 0, 1736>>
      [] ra = 900  /\ dec = -450 -> <<0, 7071, -7071>>

\* X: one unit-sphere vector per row.
Embed(frame) ==
    [k \in 1..Len(frame.rows) |->
        Cartesian(frame.rows[k]["RA(deg)"].v, frame.rows[k]["DEC(deg)"].v)]

\* metric='euclidean', compared squared.
Dist2(p, q) ==
    (p[1] - q[1]) * (p[1] - q[1]) + (p[2] - q[2]) * (p[2] - q[2])
        + (p[3] - q[3]) * (p[3] - q[3])

WithinEps(X, eps, a, b) == Dist2(X[a], X[b]) <= eps * eps

\* The eps-neighbourhood of every point (the point itself included).
Neighbourhoods(X, eps) ==
    [a \in 1..Len(X) |-> {b \in 1..Len(X) : WithinEps(X, eps, a, b)}]

\* Everything reached from the points of `reached` through core points.
RECURSIVE Expand(_, _, _)
Expand(nbh, core, reached) ==
    LET more == reached \cup UNION {nbh[a] : a \in reached \cap core}
    IN  IF more = reached THEN reached ELSE Expand(nbh, core, more)

\* The scan over the points in row order: an unlabelled core point starts
\* the next cluster, which takes every still unlabelled point it reaches.
RECURSIVE ScanPoints(_, _, _, _, _)
ScanPoints(nbh, core, labels, k, next) ==
    IF k > Len(labels) THEN labels
    ELSE IF labels[k] # -1 \/ k \notin core
         THEN ScanPoints(nbh, core, labels, k + 1, next)
         ELSE LET cluster == Expand(nbh, core, {k})
                  labelled == [j \in 1..Len(labels) |->
                                  IF j \in cluster /\ labels[j] = -1
                                  THEN next ELSE labels[j]]
              IN  ScanPoints(nbh, core, labelled, k + 1, next + 1)

\* DBSCAN(eps, min_samples, metric='euclidean').fit(X).labels_
DBSCANStrictCore(X, eps, min_samples) ==
    LET nbh  == Neighbourhoods(X, eps)
        core == {a \in 1..Len(X) : Cardinality(nbh[a]) > min_samples}
    IN  ScanPoints(nbh, core, [j \in 1..Len(X) |-> -1], 1, 0)
DBSCAN(X, eps, min_samples) ==
    LET nbh  == Neighbourhoods(X, eps)
        core == {a \in 1..Len(X) : Cardinality(nbh[a]) >= min_samples}
    IN  ScanPoints(nbh, core, [j \in 1..Len(X) |-> -1], 1, 0)

\* df['Cluster'] = labels
SetColumnShifted(frame, col, values) ==
    Frame(IF col \in Range(frame.columns) THEN frame.columns
          ELSE Append(frame.columns, col),
          frame.index,
          [k \in 1..Len(frame.rows) |->
              (col :> Cell(values[Len(frame.rows) + 1 - k])) @@ frame.rows[k]])
SetColumn(frame, col, values) ==
    Frame(IF col \in Range(frame.columns) THEN frame.columns
          ELSE Append(frame.columns, col),
          frame.index,
          [k \in 1..Len(frame.rows) |-> (col :> Cell(values[k])) @@ frame.rows[k]])

ClusteringBanner == "Performing clustering using DBSCAN..."
ClustersFoundMessage(k) == "Number of clusters found: " \o ToString(k)

\* n_clusters = len(set(labels)) - (1 if -1 in labels else 0)
NClusters(labels) ==
    Cardinality(Range(labels)) - (IF -1 \in Range(labels) THEN 1 ELSE 0)

\* fit(X) refuses an empty X (ValueError: 0 samples).
ClusteringRaises(frame) == Len(frame.rows) = 0

perform_clustering(frame, eps, min_samples) ==
    SetColumn(frame, "Cluster", DBSCAN(Embed(frame), eps, min_samples))

\* The arguments main passes: eps=0.02 (in units of 1/10000), min_samples=10.
MainEps == 200
MainMinSamples == 10

\* ---- analyze_clusters ----

Min(set) == CHOOSE x \in set : \A y \in set : x <= y
Max(set) == CHOOSE x \in set : \A y \in set : x >= y

RECURSIVE Sum(_, _)
Sum(seq, k) == IF k = 0 THEN 0 ELSE seq[k] + Sum(seq, k - 1)

\* The members of a set of numbers in increasing order.
RECURSIVE Sorted(_)
Sorted(set) ==
    IF set = {} THEN <<>> ELSE <<Min(set)>> \o Sorted(set \ {Min(set)})

Column(rows, col) == [k \in 1..Len(rows) |-> rows[k][col].v]

\* df[df['Cluster'] != -1]
AllRows(frame) == frame
ExcludeNoise(frame) ==
    Where(frame, [k \in 1..Len(frame.rows) |-> frame.rows[k]["Cluster"].v # -1])

\* clusters.groupby('Cluster').agg(...).reset_index(): one record per label,
\* in increasing label order.  The mean is held as its numerator and
\* denominator.
GroupSummary(frame, label) ==
    LET group == Where(frame, [k \in 1..Len(frame.rows) |->
                                  frame.rows[k]["Cluster"].v = label]).rows
        zs    == Column(group, "Redshift")
    IN  [Cluster            |-> label,
         Number_of_Galaxies |-> Len(group),
         Average_Redshift   |-> [num |-> Sum(zs, Len(zs)), den |-> Len(zs)],
         Min_RA  |-> Min(Range(Column(group, "RA(deg)"))),
         Max_RA  |-> Max(Range(Column(group, "RA(deg)"))),
         Min_DEC |-> Min(Range(Column(group, "DEC(deg)"))),
         Max_DEC |-> Max(Range(Column(group, "DEC(deg)")))]

AnalyzeBanner == "Analyzing clusters..."
SummaryBanner == "Cluster Summary:"

analyze_clusters(frame) ==
    LET clusters == ExcludeNoise(frame)
        keys == Sorted(Range(Column(clusters.rows, "Cluster")))
    IN  [k \in 1..Len(keys) |-> GroupSummary(clusters, keys[k])]

\* ---- visualize_clusters ----

VisualizeBanner == "Visualizing clusters..."

\* sns.color_palette('hsv', np.unique(df['Cluster']).max()+1): that many
\* colours; a palette is modelled by its number of colours.
PaletteSize(frame) == Max(Range(Column(frame.rows, "Cluster"))) + 1

\* The hue levels a chart draws: the distinct values of Cluster in its data.
HueLevels(frame) == Range(Column(frame.rows, "Cluster"))

Chart(kind, palette, hue) == [kind |-> kind, palette |-> palette, hue |-> hue]

\* A palette list whose length differs from the number of hue levels is
\* refused by some seaborn releases (ValueError) and cycled by others.
PaletteMismatch(palette, hue) == palette # Cardinality(hue)

\* ---- main ----

MainBanner   == "=== Galaxy Cluster Identification and Analysis Tool ==="
CompleteText == "Analysis complete."

\* main has no try/except: an exception raised at a line ends the process.
\* (`resume` is the line main would go on to.)
Swallowed(resume) == resume
Uncaught(resume) == "aborted"

Call(fn)   == <<fn, "call">>
Return(fn) == <<fn, "return">>
Raise(fn)  == <<fn, "raise">>

\* if __name__ == "__main__": main(); print("=== ... ===")
MainStart ==
    /\ script = "galaxy" /\ pc = "galaxy:161"
    /\ stdout' = PyPrint(stdout, MainBanner, "\n")
    /\ pc' = "galaxy:144"
    /\ UNCHANGED <<inputs, setVars, patternVars, searchVars, galaxyVars>>

\* df = fetch_galaxy_data(max_results=2000)
MainFetch ==
    /\ script = "galaxy" /\ pc = "galaxy:144"
    /\ IF ned.fails
       THEN /\ stdout' = PyPrint(stdout, FetchBanner, "\n")
            /\ calls' = calls \o <<Call("fetch_galaxy_data"), Raise("fetch_galaxy_data")>>
            /\ df' = df
            /\ pc' = Uncaught("galaxy:147")
       ELSE /\ df' = ToPandas(ned)
            /\ stdout' = PyPrint(PyPrint(stdout, FetchBanner, "\n"),
                                 FetchedMessage(Len(ned.rows)), "\n")
            /\ calls' = calls \o <<Call("fetch_galaxy_data"), Return("fetch_galaxy_data")>>
            /\ pc' = "galaxy:147"
    /\ UNCHANGED <<summary, plots, inputs, setVars, patternVars, searchVars>>

\* df = preprocess_data(df)
MainPreprocess ==
    /\ script = "galaxy" /\ pc = "galaxy:147"
    /\ IF ~HasColumns(df, ColumnsNeeded)
       THEN /\ stdout' = PyPrint(stdout, PreprocessBanner, "\n")
            /\ calls' = calls \o <<Call("preprocess_data"), Raise("preprocess_data")>>
            /\ df' = df
            /\ pc' = Uncaught("galaxy:150")
       ELSE /\ df' = preprocess_data(df)
            /\ stdout' = PyPrint(PyPrint(stdout, PreprocessBanner, "\n"),
                                 PreprocessedMessage(Len(df'.rows)), "\n")
            /\ calls' = calls \o <<Call("preprocess_data"), Return("preprocess_data")>>
            /\ pc' = "galaxy:150"
    /\ UNCHANGED <<summary, plots, inputs, setVars, patternVars, searchVars>>

\* df = perform_clustering(df, eps=0.02, min_samples=10)
MainCluster ==
    /\ script = "galaxy" /\ pc = "galaxy:150"
    /\ IF ClusteringRaises(df)
       THEN /\ stdout' = PyPrint(stdout, ClusteringBanner, "\n")
            /\ calls' = calls \o <<Call("perform_clustering"), Raise("perform_clustering")>>
            /\ df' = df
            /\ pc' = Uncaught("galaxy:153")
       ELSE /\ df' = perform_clustering(df, MainEps, MainMinSamples)
            /\ stdout' = PyPrint(PyPrint(stdout, ClusteringBanner, "\n"),
                    ClustersFoundMessage(NClusters(Column(df'.rows, "Cluster"))), "\n")
            /\ calls' = calls \o <<Call("perform_clustering"), Return("perform_clustering")>>
            /\ pc' = "galaxy:153"
    /\ UNCHANGED <<summary, plots, inputs, setVars, patternVars, searchVars>>

\* summary = analyze_clusters(df).  The printed layout of the summary frame is
\* not modelled: what is printed after "Cluster Summary:" is `summary`.
MainAnalyze ==
    /\ script = "galaxy" /\ pc = "galaxy:153"
    /\ summary' = analyze_clusters(df)
    /\ stdout' = PyPrint(PyPrint(stdout, AnalyzeBanner, "\n"), SummaryBanner, "\n")
    /\ calls' = calls \o <<Call("analyze_clusters"), Return("analyze_clusters")>>
    /\ pc' = "galaxy:156"
    /\ UNCHANGED <<df, plots, inputs, setVars, patternVars, searchVars>>

\* visualize_clusters(df)
MainVisualize ==
    /\ script = "galaxy" /\ pc = "galaxy:156"
    /\ stdout' = PyPrint(stdout, VisualizeBanner, "\n")
    /\ LET palette == PaletteSize(df)
           scatter == Chart("scatter", palette, HueLevels(df))
           hist    == Chart("hist", palette, HueLevels(ExcludeNoise(df)))
       IN  \/ /\ plots' = plots \o <<scatter, hist>>
              /\ calls' = calls \o <<Call("visualize_clusters"), Return("visualize_clusters")>>
              /\ pc' = "galaxy:158"
           \/ /\ PaletteMismatch(palette, scatter.hue)
              /\ plots' = plots
              /\ calls' = calls \o <<Call("visualize_clusters"), Raise("visualize_clusters")>>
              /\ pc' = Uncaught("galaxy:158")
    /\ UNCHANGED <<df, summary, inputs, setVars, patternVars, searchVars>>

\* print("Analysis complete.")
MainComplete ==
    /\ script = "galaxy" /\ pc = "galaxy:158"
    /\ stdout' = PyPrint(stdout, CompleteText, "\n")
    /\ pc' = "done"
    /\ UNCHANGED <<inputs, setVars, patternVars, searchVars, galaxyVars>>

-----------------------------------------------------------------------------
(* The runs.  Inputs are fixed in the initial state: the set script's hash *)
(* seed, the pattern script's input line, the search script's file, and    *)
(* the galaxy script's catalog service (what it answers on this run).      *)

MaxRows   == 2
MaxNear   == 6
MaxWrap   == 5
MaxBridge == 1
MaxLone   == 1
MaxFar    == 10

NoService == [fails |-> TRUE, columns |-> <<>>, rows |-> <<>>]
Service(columns, rows) == [fails |-> FALSE, columns |-> columns, rows |-> rows]

\* Small catalogs: every table of at most MaxRows rows, a row missing at most
\* one of its cells, or all of them.
Missing(row) == Cardinality({c \in DOMAIN row : row[c].na})
RowChoices ==
    {row \in {Row(name, ra, dec, z) :
                name \in {NA, Cell(1)}, ra \in {NA, Cell(2)}, dec \in {NA, Cell(0)},
                z \in {NA, Cell(1), Cell(2)}} :
        Missing(row) <= 1 \/ Missing(row) = Cardinality(DOMAIN row)}
SmallTables == UNION {[1..k -> RowChoices] : k \in 0..MaxRows}

\* Sky catalogs: `count` galaxies at each of five sky positions.  (0.2, 0)
\* and (359.8, 0) are within eps of each other across the RA wrap; (1.1, 0)
\* is within eps of (0.2, 0) only; (90, -45) and (180, 10) are far from
\* every other position.  The counts range around min_samples.
SiteRows(ra, dec, count, base) ==
    [k \in 1..count |-> Row(Cell(base + k), Cell(ra), Cell(dec), Cell(k))]

SkyRows(near, wrap, bridge, lone, far) ==
    SiteRows(2, 0, near, 100) \o SiteRows(3598, 0, wrap, 200)
        \o SiteRows(11, 0, bridge, 300) \o SiteRows(900, -450, lone, 400)
        \o SiteRows(1800, 100, far, 500)

Reverse(seq) == [k \in 1..Len(seq) |-> seq[Len(seq) + 1 - k]]

Arrange(rows, order) == IF order = "reverse" THEN Reverse(rows) ELSE rows

\* A table with one cell missing, or with none.
Damage(rows, defect) ==
    CASE defect = "none" \/ Len(rows) = 0 -> rows
      [] defect = "first-redshift" -> [rows EXCEPT ![1]["Redshift"] = NA]
      [] defect = "last-ra"        -> [rows EXCEPT ![Len(rows)]["RA(deg)"] = NA]

SkyTables ==
    {Damage(Arrange(SkyRows(near, wrap, bridge, lone, far), order), defect) :
        near \in (MainMinSamples - MaxWrap)..MaxNear, wrap \in 0..MaxWrap,
        bridge \in 0..MaxBridge, lone \in 0..MaxLone,
        far \in (MainMinSamples - 1)..MaxFar, order \in {"catalog", "reverse"},
        defect \in {"none", "first-redshift", "last-ra"}}

NedChoices ==
    {NoService, Service(AltColumns, <<AltRow(Cell(1), Cell(2), Cell(0), Cell(1))>>)}
        \cup {Service(NedColumns, rows) : rows \in SmallTables \cup SkyTables}

Init ==
    /\ stdout = "" /\ prompt = ""
    /\ s = <<>>
    /\ n = 0 /\ i = 0
    /\ lines = <<>> /\ pos = 0 /\ lineno = 0
    /\ df = NoFrame /\ summary = <<>> /\ plots = <<>> /\ calls = <<>>
    /\ \/ /\ script = "set" /\ pc = "set:3"
          /\ strHash \in {Twenty, Twenty + 1}
          /\ stdin = "" /\ fileExists = FALSE /\ fileText = "" /\ ned = NoService
       \/ /\ script = "pattern" /\ pc = "pattern:6"
          /\ stdin \in StdinChoices
          /\ strHash = 0 /\ fileExists = FALSE /\ fileText = "" /\ ned = NoService
       \/ /\ script = "search" /\ pc = "search:4"
          /\ \/ fileExists = FALSE /\ fileText = ""
             \/ fileExists = TRUE /\ fileText \in FileChoices
          /\ strHash = 0 /\ stdin = "" /\ ned = NoService
       \/ /\ script = "galaxy" /\ pc = "galaxy:161"
          /\ ned \in NedChoices
          /\ strHash = 0 /\ stdin = "" /\ fileExists = FALSE /\ fileText = ""

Next ==
    \/ SetNew \/ SetAdd20 \/ SetAdd20Float \/ SetAdd20Str \/ SetPrint \/ SetPrintLen
    \/ PatternInput \/ PatternFor \/ PatternSpaces \/ PatternStars \/ PatternNewline
    \/ SearchOpen \/ SearchInit \/ SearchFor \/ SearchTest \/ SearchFound
    \/ SearchIncr \/ SearchNotFound
    \/ MainStart \/ MainFetch \/ MainPreprocess \/ MainCluster \/ MainAnalyze
    \/ MainVisualize \/ MainComplete

Spec == Init /\ [][Next]_vars

-----------------------------------------------------------------------------
(* Properties of the scripts.                                              *)

PatternDone == script = "pattern" /\ pc = "done"

MatchingLines(ls) == {k \in 1..Len(ls) : Contains("python", ls[k])}
FirstOf(set) == CHOOSE k \in set : \A j \in set : k <= j

SearchRuns == script = "search" /\ fileExists

\* C2: when some line of the file contains "python", the search script
\* prints nothing but the one message "Yes, Python is present. Line no: k",
\* k the 1-based number of the first such line; it has printed exactly that
\* when it finishes, having consumed the lines up to line k and no further,
\* and it never prints the not-found message.
C2_FoundFirstLine ==
    SearchRuns =>
        LET matching == MatchingLines(OutputLines(fileText))
            first == FirstOf(matching)
            found == "Yes, Python is present. Line no: " \o ToString(first) \o "\n"
        IN  matching # {} =>
                /\ stdout \in {"", found}
                /\ pos <= first
                /\ pc = "done" => (stdout = found /\ pos = first)
                /\ pc # "search:14"

C2_Witness ==
    /\ SearchRuns /\ pc = "done"
    /\ fileText = "hello\nI love python\npython\n"
    /\ stdout = "Yes, Python is present. Line no: 2\n"

\* C3: when no line of the file contains "python" in exactly that case (an
\* empty file and a file spelling it "Python" or "PYTHON" included), the
\* search script prints nothing but the one message "No, Python is not
\* present.", and has printed it, after consuming every line, when it
\* finishes.
C3_NotFound ==
    SearchRuns =>
        LET fileLines == OutputLines(fileText)
            missing == "No, Python is not present.\n"
        IN  MatchingLines(fileLines) = {} =>
                /\ stdout \in {"", missing}
                /\ stdout = missing => pc = "done"
                /\ pc = "done" => (stdout = missing /\ pos = Len(fileLines))
                /\ pc \notin {"search:10", "aborted"}

C3_Witness ==
    /\ SearchRuns /\ pc = "done"
    /\ fileText = "Python\nPYTHON\n"
    /\ stdout = "No, Python is not present.\n"

\* C4: once the set script has added 20, 20.0 and '20' to the empty set, the
\* set has exactly 2 members, the integer 20 (which the float 20.0 equals
\* and hashes like, so it takes no place of its own) and the string '20';
\* the length it prints is 2.
C4_SetSize ==
    script = "set" =>
        /\ pc = "set:6" => s = <<IntObj(20)>>
        /\ pc \in {"set:8", "set:9", "done"} =>
              (Len(s) = 2 /\ Range(s) = {IntObj(20), StrObj("20")})
        /\ pc = "done" =>
              LET out == OutputLines(stdout)
              IN  Len(out) = 2 /\ out[2] = "2"

C4_Witness ==
    /\ script = "set" /\ pc = "done" /\ strHash = 20
    /\ Len(s) = 2
    /\ stdout \in {"{20, '20'}\n2\n", "{'20', 20}\n2\n"}

CleaningReturns   == script = "galaxy" /\ pc = "galaxy:147" /\ pc' = "galaxy:150"
ClusteringReturns == script = "galaxy" /\ pc = "galaxy:150" /\ pc' = "galaxy:153"

\* The positions of the rows of a frame with no missing value in RA(deg),
\* DEC(deg) and Redshift, and the j-th of them in row order.
CompleteRows(frame) ==
    {k \in 1..Len(frame.rows) :
        /\ ~frame.rows[k]["RA(deg)"].na
        /\ ~frame.rows[k]["DEC(deg)"].na
        /\ ~frame.rows[k]["Redshift"].na}
NthOf(set, j) == CHOOSE k \in set : Cardinality({m \in set : m <= k}) = j

\* C5: whenever preprocess_data returns, the table it returns holds exactly
\* the rows of its input that miss none of RA(deg), DEC(deg) and Redshift, in
\* their input order, cut down to those three columns, with the index
\* 0..k-1; so no returned row misses a coordinate or a redshift, and an input
\* with exactly one incomplete row loses exactly that row.
C5_Cleaning ==
    [][CleaningReturns =>
        LET kept == CompleteRows(df)
        IN  /\ df'.columns = <<"RA(deg)", "DEC(deg)", "Redshift">>
            /\ Len(df'.rows) = Cardinality(kept)
            /\ Len(df'.index) = Cardinality(kept)
            /\ \A j \in 1..Len(df'.rows) :
                /\ df'.index[j] = j - 1
                /\ DOMAIN df'.rows[j] = {"RA(deg)", "DEC(deg)", "Redshift"}
                /\ \A c \in DOMAIN df'.rows[j] :
                      /\ df'.rows[j][c] = df.rows[NthOf(kept, j)][c]
                      /\ ~df'.rows[j][c].na
            /\ (Cardinality(kept) = Len(df.rows) - 1
                    => Len(df'.rows) = Len(df.rows) - 1)
    ]_vars

\* A cleaned table of one row, index 0, that came from a two-row catalog
\* whose first row alone misses its Redshift.
C5_Witness ==
    /\ script = "galaxy" /\ pc = "galaxy:150"
    /\ Len(ned.rows) = 2
    /\ ned.rows[1]["Redshift"].na
    /\ CompleteRows(ned) = {2}
    /\ Len(df.rows) = 1
    /\ df.index = <<0>>
    /\ df.rows[1]["Redshift"] = ned.rows[2]["Redshift"]

Labels(frame) == [k \in 1..Len(frame.rows) |-> frame.rows[k]["Cluster"].v]
\* perform_clustering has just returned the labelled table.
Labelled == script = "galaxy" /\ pc = "galaxy:153"

\* Two dense groups and nothing else: the rows split into two groups of at
\* least 10, two rows being within eps of each other in the embedding exactly
\* when they are in the same group.
TwoDenseGroups(frame) ==
    /\ Len(frame.rows) >= 20
    /\ LET X  == Embed(frame)
           g1 == {k \in 1..Len(X) : Dist2(X[1], X[k]) <= 200 * 200}
           g2 == (1..Len(X)) \ g1
       IN  /\ Cardinality(g1) >= 10 /\ Cardinality(g2) >= 10
           /\ \A a, b \in 1..Len(X) :
                 (Dist2(X[a], X[b]) <= 200 * 200) <=> ((a \in g1) <=> (b \in g1))

\* C6: a table of two dense groups (each of at least 10 points, all pairs
\* inside a group within eps = 0.02, all pairs across the groups farther
\* apart) and no other point is labelled with exactly 2 labels, none of them
\* -1: the rows of a group share a label and the two groups differ.
C6_TwoClusters ==
    (Labelled /\ TwoDenseGroups(df)) =>
        LET X == Embed(df)
            label == Labels(df)
        IN  /\ Cardinality(Range(label)) = 2
            /\ -1 \notin Range(label)
            /\ \A a, b \in 1..Len(label) :
                  (label[a] = label[b]) <=> (Dist2(X[a], X[b]) <= 200 * 200)

C6_Witness ==
    /\ Labelled /\ TwoDenseGroups(df)
    /\ Range(Labels(df)) = {0, 1}
    /\ \E k \in 1..Len(df.rows) : df.rows[k]["RA(deg)"].v = 3598

\* C7: once analyze_clusters has returned, the summary holds one record for
\* each label other than -1 in the table and none for -1; a record's count is
\* the number of rows with its label and its Min/Max RA and DEC are the
\* least and greatest of those columns over those rows; a table of noise only
\* has an empty summary.
Analyzed == script = "galaxy" /\ pc = "galaxy:156"
C7_Summary ==
    Analyzed =>
        LET label  == Labels(df)
            groups == Range(label) \ {-1}
            Members(g) == {k \in 1..Len(label) : label[k] = g}
            Values(g, col) == {df.rows[k][col].v : k \in Members(g)}
            Least(r, field, vals) ==
                r[field] \in vals /\ \A v \in vals : r[field] <= v
            Greatest(r, field, vals) ==
                r[field] \in vals /\ \A v \in vals : r[field] >= v
        IN  /\ Len(summary) = Cardinality(groups)
            /\ {summary[j].Cluster : j \in 1..Len(summary)} = groups
            /\ \A j \in 1..Len(summary) :
                LET r == summary[j]
                IN  /\ r.Number_of_Galaxies = Cardinality(Members(r.Cluster))
                    /\ Least(r, "Min_RA", Values(r.Cluster, "RA(deg)"))
                    /\ Greatest(r, "Max_RA", Values(r.Cluster, "RA(deg)"))
                    /\ Least(r, "Min_DEC", Values(r.Cluster, "DEC(deg)"))
                    /\ Greatest(r, "Max_DEC", Values(r.Cluster, "DEC(deg)"))
            /\ (Range(label) = {-1} => summary = <<>>)

C7_Witness ==
    /\ Analyzed
    /\ Range(Labels(df)) = {-1, 0, 1}
    /\ Len(summary) = 2
    /\ \E j \in 1..2 :
          summary[j].Min_RA = 2 /\ summary[j].Max_RA = 3598
              /\ summary[j].Number_of_Galaxies > 10

MainSteps ==
    <<"fetch_galaxy_data", "preprocess_data", "perform_clustering",
      "analyze_clusters", "visualize_clusters">>

\* The history of a run whose first m steps returned.
RECURSIVE Returned(_)
Returned(m) ==
    IF m = 0 THEN <<>>
    ELSE Returned(m - 1) \o <<<<MainSteps[m], "call">>, <<MainSteps[m], "return">>>>

\* C9: in every run of main the steps are called at most once each, in the
\* order fetch, clean, cluster, analyze, visualize, each after the previous
\* one returned; a step that raises ends the run there, with no later step
\* and no retry; "Analysis complete." is printed only after all five
\* returned.
C9_PipelineOrder ==
    script = "galaxy" =>
        /\ \E m \in 0..5 :
              \/ calls = Returned(m) /\ pc # "aborted"
              \/ /\ m >= 1
                 /\ calls = Returned(m - 1)
                        \o <<<<MainSteps[m], "call">>, <<MainSteps[m], "raise">>>>
                 /\ pc = "aborted"
        /\ Contains("Analysis complete.", stdout) =>
              (calls = Returned(5) /\ pc = "done")
        /\ pc = "done" => Contains("Analysis complete.", stdout)

C9_Witness ==
    /\ script = "galaxy" /\ pc = "aborted"
    /\ calls = Returned(1)
          \o <<<<"preprocess_data", "call">>, <<"preprocess_data", "raise">>>>
    /\ ~Contains("Analysis complete.", stdout)

\* C10: the palette of every scatter plot drawn has exactly one colour for
\* each distinct value of the Cluster column the plot draws.
C10_PaletteCoversHues ==
    \A j \in 1..Len(plots) :
        plots[j].kind = "scatter" => plots[j].palette = Cardinality(plots[j].hue)

=============================================================================
